---- MODULE Spec2Model ----
(***************************************************************************)
(* Model of src/components/layout.js of ptkmc/code-blog and of the         *)
(* context-based theme toggle of the accompanying tutorial.                *)
(*                                                                         *)
(* Two holders of the theme flag are modelled side by side:                *)
(*   - the hook-based holder: DarkModeToggle, darkMode = useDarkMode(false)*)
(*   - the context-based holder: ThemeProvider, theme = useState("light")  *)
(* A page session starts with PageLoad; within a session the switches'     *)
(* onChange handlers and new Layout props are the only events.  Every      *)
(* event handler includes the re-render React performs for it.             *)
(***************************************************************************)
EXTENDS Integers, Sequences, FiniteSets, TLC

\* ---------------------------------------------------------------- bounds
\* onChange events of one switch that a page session may see
MaxEvents == 3

\* ------------------------------------------------------------ input sets
\* values of the build-time global __PATH_PREFIX__
PathPrefixes == {"", "/blog"}
\* values of props.location.pathname
Pathnames == {"/", "/blog/", "/posts/1"}
\* values of props.title
Titles == {"My Blog", "Code Blog"}
\* values of props.children (opaque renderable)
Children == {"index", "post"}

VARIABLES
    PATH_PREFIX,   \* build-time global __PATH_PREFIX__
    props,         \* this.props of Layout: location, title, children
    darkMode,      \* value held by useDarkMode(false)
    storage,       \* external storage of the persisted preference
    hookError,     \* a failure propagated out of useDarkMode
    theme,         \* state of ThemeProvider (useState)
    layoutView,    \* what Layout.render of layout.js last rendered
    themedView,    \* what the tutorial's Layout last rendered
    hookLog,       \* darkMode.value at load and after each onChange
    ctxLog,        \* theme.name at load and after each onChange
    beforeLoad,    \* the two flags as they were just before this page load
    lastEvent      \* the event handled last

vars == <<PATH_PREFIX, props, darkMode, storage, hookError, theme,
          layoutView, themedView, hookLog, ctxLog, beforeLoad, lastEvent>>

\* ------------------------------------------------------- assets (imports)
sunIcon == "sun-icon.svg"
moonIcon == "moon-icon.svg"

\* ------------------------------------------------------ layout.js, Layout
rootPath(prefix) == prefix \o "/"

LinkToRoot(title) ==
    [to |-> "/", text |-> title,
     style |-> [boxShadow |-> "none", textDecoration |-> "none",
                color |-> "inherit"]]

\* the heading compared with "/" instead of rootPath
LayoutHeaderIgnoringPrefix(prefix, p) ==
    IF p.location.pathname = "/"
    THEN [tag |-> "h1",
          style |-> [scale |-> "0.9", margin |-> "0"],
          link |-> LinkToRoot(p.title)]
    ELSE [tag |-> "h3",
          style |-> [fontFamily |-> "Montserrat, sans-serif", margin |-> "0"],
          link |-> LinkToRoot(p.title)]

LayoutHeader(prefix, p) ==
    IF p.location.pathname = rootPath(prefix)
    THEN [tag |-> "h1",
          style |-> [scale |-> "0.9", margin |-> "0"],
          link |-> LinkToRoot(p.title)]
    ELSE [tag |-> "h3",
          style |-> [fontFamily |-> "Montserrat, sans-serif", margin |-> "0"],
          link |-> LinkToRoot(p.title)]

\* react-switch: the track colour and the icon shown follow `checked`
Switch(sw) ==
    [checked |-> sw.checked,
     icon |-> IF sw.checked THEN sw.checkedIcon ELSE sw.uncheckedIcon,
     trackColor |-> IF sw.checked THEN sw.onColor ELSE sw.offColor]

\* the two icons given to the wrong props
DarkModeToggleIconsSwapped(value) ==
    Switch([checked |-> value,
            onColor |-> "#222", offColor |-> "#333",
            checkedIcon |-> sunIcon, uncheckedIcon |-> moonIcon])

DarkModeToggle(value) ==
    Switch([checked |-> value,
            onColor |-> "#222", offColor |-> "#333",
            checkedIcon |-> moonIcon, uncheckedIcon |-> sunIcon])

LayoutRender(prefix, p, value) ==
    [header |-> [height |-> "42",
                 heading |-> LayoutHeader(prefix, p),
                 toggle |-> DarkModeToggle(value)],
     main |-> p.children]

\* ------------------------------------------- use-dark-mode (the contract)
\* the argument of useDarkMode(false)
DarkModeInitialTrue == TRUE

DarkModeInitial == FALSE

\* the preference is stored as text
Encode(b) == IF b THEN "true" ELSE "false"

Decode(s) == s = "true"

\* read on load: the stored preference, else the initial value
UseDarkMode(st, initial) ==
    IF st.available /\ st.item # "none"
    THEN [value |-> Decode(st.item), error |-> FALSE]
    ELSE [value |-> initial, error |-> FALSE]

\* written on toggle, when the storage is there
StorageWrite(st, b) ==
    IF st.available THEN [st EXCEPT !.item = Encode(b)] ELSE st

\* darkMode.toggle
Toggle(value) == ~value

\* ------------------------------------------- tutorial, ThemeContext.js
\* the value consumers get when no Provider is above them
ThemeContextDefault == [name |-> "light"]

\* useState("dark"), the tutorial's try-it-out variant
ThemeProviderInitialDark == "dark"

\* useState("light")
ThemeProviderInitial == "light"

\* the value prop of ThemeContext.Provider
ThemeProvider(state) == [name |-> state]

\* ------------------------------------------- tutorial, layout.js
\* the dark palette with its two colours exchanged
themesDarkExchanged ==
    [light |-> [foreground |-> "inherit", background |-> "inherit"],
     dark  |-> [foreground |-> "#222222", background |-> "#ffffff"]]

themes ==
    [light |-> [foreground |-> "inherit", background |-> "inherit"],
     dark  |-> [foreground |-> "#ffffff", background |-> "#222222"]]

\* themes[undefined].foreground throws while rendering
RenderError == [error |-> "TypeError"]

ThemedLayout(th) ==
    [color |-> themes[th.name].foreground,
     backgroundColor |-> themes[th.name].background,
     transition |-> "all 0.4s ease",
     linkColor |-> IF th.name = "dark" THEN "#B38CD9" ELSE "inherit"]

\* ------------------------------------------- tutorial, header.js
\* the argument the Switch's onChange passes to updateTheme
\* (mutations of it: always dark; the test inverted; a misspelt name)
NextThemeAlwaysDark(name) == "dark"

NextThemeInverted(name) == IF name = "dark" THEN "dark" ELSE "light"

NextThemeMisspelt(name) == IF name = "light" THEN "dark" ELSE "ligth"

NextTheme(name) == IF name = "light" THEN "dark" ELSE "light"

Header(th) ==
    Switch([checked |-> th.name = "dark",
            onColor |-> "#222", offColor |-> "#333",
            checkedIcon |-> moonIcon, uncheckedIcon |-> sunIcon])

\* Header reading the context's default instead of the Provider's value
ThemedRenderHeaderOutsideProvider(th) ==
    IF th.name \in DOMAIN themes
    THEN [container |-> ThemedLayout(th), header |-> Header(ThemeContextDefault)]
    ELSE RenderError

\* <ThemeContext.Consumer>{theme => <ThemedLayout theme={theme}>
\*     <Header theme={theme} /> ...
ThemedRender(th) ==
    IF th.name \in DOMAIN themes
    THEN [container |-> ThemedLayout(th), header |-> Header(th)]
    ELSE RenderError

\* ------------------------------------------------------------- the events
Props(p, t, c) == [location |-> [pathname |-> p], title |-> t, children |-> c]

TypeOK ==
    /\ PATH_PREFIX \in PathPrefixes
    /\ props \in [location : [pathname : Pathnames], title : Titles,
                  children : Children]
    /\ darkMode \in BOOLEAN
    /\ storage \in [available : BOOLEAN, item : {"none", "true", "false"}]
    /\ hookError \in BOOLEAN
    /\ Len(hookLog) \in 1..(MaxEvents + 1)
    /\ Len(ctxLog) \in 1..(MaxEvents + 1)
    /\ lastEvent \in {"load", "props", "hookToggle", "ctxToggle"}

\* first load of the page: nothing is stored yet
Init ==
    /\ PATH_PREFIX \in PathPrefixes
    /\ \E p \in Pathnames, t \in Titles, c \in Children : props = Props(p, t, c)
    /\ \E a \in BOOLEAN : storage = [available |-> a, item |-> "none"]
    /\ darkMode = UseDarkMode(storage, DarkModeInitial).value
    /\ hookError = UseDarkMode(storage, DarkModeInitial).error
    /\ theme = ThemeProviderInitial
    /\ layoutView = LayoutRender(PATH_PREFIX, props, darkMode)
    /\ themedView = ThemedRender(ThemeProvider(theme))
    /\ hookLog = <<darkMode>>
    /\ ctxLog = <<theme>>
    /\ beforeLoad = [first |-> TRUE, darkMode |-> darkMode, theme |-> theme]
    /\ lastEvent = "load"

\* the page is loaded again: every component is mounted anew
PageLoad ==
    /\ \E p \in Pathnames, t \in Titles, c \in Children : props' = Props(p, t, c)
    /\ darkMode' = UseDarkMode(storage, DarkModeInitial).value
    /\ hookError' = UseDarkMode(storage, DarkModeInitial).error
    /\ theme' = ThemeProviderInitial
    /\ layoutView' = LayoutRender(PATH_PREFIX, props', darkMode')
    /\ themedView' = ThemedRender(ThemeProvider(theme'))
    /\ hookLog' = <<darkMode'>>
    /\ ctxLog' = <<theme'>>
    /\ beforeLoad' = [first |-> FALSE, darkMode |-> darkMode, theme |-> theme]
    /\ lastEvent' = "load"
    /\ UNCHANGED <<PATH_PREFIX, storage>>

\* Layout rendered with new props, the Provider mounted around each page
RenderLayoutRemountingProvider ==
    /\ \E p \in Pathnames, t \in Titles, c \in Children :
          /\ Props(p, t, c) # props
          /\ props' = Props(p, t, c)
    /\ layoutView' = LayoutRender(PATH_PREFIX, props', darkMode)
    /\ theme' = ThemeProviderInitial
    /\ themedView' = ThemedRender(ThemeProvider(theme'))
    /\ lastEvent' = "props"
    /\ UNCHANGED <<PATH_PREFIX, darkMode, storage, hookError,
                   hookLog, ctxLog, beforeLoad>>

\* Layout rendered with new props (route, title or children changed)
RenderLayout ==
    /\ \E p \in Pathnames, t \in Titles, c \in Children :
          /\ Props(p, t, c) # props
          /\ props' = Props(p, t, c)
    /\ layoutView' = LayoutRender(PATH_PREFIX, props', darkMode)
    /\ themedView' = ThemedRender(ThemeProvider(theme))
    /\ lastEvent' = "props"
    /\ UNCHANGED <<PATH_PREFIX, darkMode, storage, hookError, theme,
                   hookLog, ctxLog, beforeLoad>>

\* the Switch of DarkModeToggle changes: onChange={darkMode.toggle}
HookToggle ==
    /\ Len(hookLog) <= MaxEvents
    /\ darkMode' = Toggle(darkMode)
    /\ storage' = StorageWrite(storage, darkMode')
    /\ layoutView' = LayoutRender(PATH_PREFIX, props, darkMode')
    /\ hookLog' = Append(hookLog, darkMode')
    /\ lastEvent' = "hookToggle"
    /\ UNCHANGED <<PATH_PREFIX, props, hookError, theme, themedView,
                   ctxLog, beforeLoad>>

\* the Switch of Header changes: theme.updateTheme(...), updateTheme = setTheme
CtxToggle ==
    /\ Len(ctxLog) <= MaxEvents
    /\ theme' = NextTheme(theme)
    /\ themedView' = ThemedRender(ThemeProvider(theme'))
    /\ ctxLog' = Append(ctxLog, theme')
    /\ lastEvent' = "ctxToggle"
    /\ UNCHANGED <<PATH_PREFIX, props, darkMode, storage, hookError,
                   layoutView, hookLog, beforeLoad>>

Next ==
    \/ PageLoad
    \/ RenderLayout
    \/ HookToggle
    \/ CtxToggle

Spec == Init /\ [][Next]_vars

\* ------------------------------------------------------------ properties
Min(a, b) == IF a <= b THEN a ELSE b

\* C1: whatever the route, the title is an h1 without a font override when
\* the pathname is the site root (__PATH_PREFIX__ followed by "/"), an h3
\* with the Montserrat override otherwise; either way the heading holds a
\* link to "/" whose text is the title.
C1_HeadingByRoute ==
    LET h == layoutView.header.heading
        atRoot == props.location.pathname = PATH_PREFIX \o "/"
    IN  /\ atRoot => (h.tag = "h1" /\ "fontFamily" \notin DOMAIN h.style)
        /\ ~atRoot => (h.tag = "h3"
                       /\ "fontFamily" \in DOMAIN h.style
                       /\ h.style.fontFamily = "Montserrat, sans-serif")
        /\ h.link.to = "/"
        /\ h.link.text = props.title

C1_Witness ==
    /\ lastEvent = "props"
    /\ PATH_PREFIX = "/blog"
    /\ props.location.pathname = "/blog/"
    /\ layoutView.header.heading.tag = "h1"

\* C2: one onChange negates the flag and two of them restore it, for the
\* hook-based holder and for the context-based one.
C2_ToggleTwice ==
    /\ \A i \in 1..Len(hookLog) :
          /\ (i + 1 <= Len(hookLog)) => hookLog[i + 1] = ~hookLog[i]
          /\ (i + 2 <= Len(hookLog)) => hookLog[i + 2] = hookLog[i]
    /\ \A i \in 1..Len(ctxLog) :
          /\ (i + 1 <= Len(ctxLog)) =>
                (ctxLog[i + 1] = "dark") = ~(ctxLog[i] = "dark")
          /\ (i + 2 <= Len(ctxLog)) => ctxLog[i + 2] = ctxLog[i]

C2_Witness ==
    /\ Len(hookLog) >= 3
    /\ Len(ctxLog) >= 3
    /\ ctxLog[3] = ctxLog[1]

\* C3: in every rendered state the switch of DarkModeToggle shows the flag:
\* checked, moon icon and the on colour when darkMode.value is true,
\* unchecked, sun icon and the off colour when it is false.
C3_ToggleReflectsFlag ==
    LET sw == layoutView.header.toggle
    IN  /\ darkMode => (sw.checked /\ sw.icon = "moon-icon.svg"
                        /\ sw.trackColor = "#222")
        /\ ~darkMode => (~sw.checked /\ sw.icon = "sun-icon.svg"
                         /\ sw.trackColor = "#333")

C3_Witness ==
    /\ lastEvent = "hookToggle"
    /\ darkMode
    /\ layoutView.header.toggle.icon = moonIcon

\* C4: after a load the flag is light and the container has the default
\* colours; after the first onChange it is dark and the container has the
\* dark palette's foreground and background.
C4_LoadThenToggle ==
    /\ Len(ctxLog) = 1 =>
          /\ theme = "light"
          /\ themedView.container.color = "inherit"
          /\ themedView.container.backgroundColor = "inherit"
    /\ Len(ctxLog) = 2 =>
          /\ theme = "dark"
          /\ themedView.container.color = "#ffffff"
          /\ themedView.container.backgroundColor = "#222222"
    /\ (beforeLoad.first /\ Len(hookLog) = 1) => ~darkMode
    /\ (beforeLoad.first /\ Len(hookLog) = 2) => darkMode

C4_Witness ==
    /\ lastEvent = "ctxToggle"
    /\ Len(ctxLog) = 2
    /\ themedView.container.backgroundColor = "#222222"

\* C5: within a page session only a switch's onChange changes a flag:
\* a step that changes darkMode is HookToggle, a step that changes theme is
\* CtxToggle (or the page was loaded anew); rendering Layout with another
\* route, title or children changes neither flag nor the stored preference.
C5_OnlyToggleMutates ==
    [][ /\ (darkMode' # darkMode) => (HookToggle \/ PageLoad)
        /\ (theme' # theme) => (CtxToggle \/ PageLoad)
        /\ (lastEvent' = "props") =>
              (darkMode' = darkMode /\ theme' = theme /\ storage' = storage)
      ]_vars

C5_Witness ==
    /\ lastEvent = "props"
    /\ darkMode
    /\ theme = "dark"
    /\ themedView.header.checked

\* C6 as stated: after a reload each flag equals its value before the reload.
C6_Original ==
    (lastEvent = "load" /\ ~beforeLoad.first) =>
        /\ theme = beforeLoad.theme
        /\ storage.available => darkMode = beforeLoad.darkMode

\* C6 amended: only the hook-based holder persists, through its storage;
\* the context-based provider is "light" after every page load.
C6_Amended ==
    lastEvent = "load" =>
        /\ theme = "light"
        /\ beforeLoad.first => ~darkMode
        /\ (storage.available /\ ~beforeLoad.first) =>
              darkMode = beforeLoad.darkMode
        /\ storage.available =>
              storage.item \in {"none", IF darkMode THEN "true" ELSE "false"}

C6_Witness ==
    /\ lastEvent = "load"
    /\ ~beforeLoad.first
    /\ beforeLoad.theme = "dark"
    /\ theme = "light"
    /\ beforeLoad.darkMode
    /\ darkMode

\* C7: with the storage unavailable a page load gives the default, light,
\* no failure is propagated, and onChange can still be handled and negates
\* the flag.
C7_StorageUnavailable ==
    ~storage.available =>
        /\ lastEvent = "load" => (~darkMode /\ theme = "light")
        /\ ~hookError
        /\ storage.item = "none"
        /\ Len(hookLog) <= MaxEvents => ENABLED HookToggle
        /\ Len(hookLog) >= 2 =>
              hookLog[Len(hookLog)] = ~hookLog[Len(hookLog) - 1]
        /\ darkMode = hookLog[Len(hookLog)]

C7_Witness ==
    /\ ~storage.available
    /\ lastEvent = "load"
    /\ ~beforeLoad.first
    /\ beforeLoad.darkMode
    /\ ~darkMode

\* C8: once an onChange has been handled every reader shows the new flag:
\* the switch's checked value and the themed container never disagree.
C8_ReadersAgree ==
    /\ layoutView.header.toggle.checked = darkMode
    /\ themedView.header.checked = (theme = "dark")
    /\ (themedView.container.backgroundColor = "#222222") = (theme = "dark")
    /\ (themedView.container.linkColor = "#B38CD9")
          = themedView.header.checked

C8_Witness ==
    /\ lastEvent = "ctxToggle"
    /\ theme = "dark"
    /\ themedView.header.checked
    /\ themedView.container.linkColor = "#B38CD9"

\* C9: the theme is always one of the two modes, so the themes lookup is
\* defined and rendering never throws.
C9_TwoModes ==
    /\ theme \in {"light", "dark"}
    /\ theme \in DOMAIN themes
    /\ themedView # RenderError
    /\ darkMode \in BOOLEAN

C9_Witness ==
    /\ lastEvent = "ctxToggle"
    /\ Len(ctxLog) >= 3
    /\ theme = "light"

\* C10: started both from light, the two holders agree after the same
\* number of onChange events, and so do the two switches.
C10_HoldersAgree ==
    (hookLog[1] = FALSE /\ ctxLog[1] = "light") =>
        /\ \A i \in 1..Min(Len(hookLog), Len(ctxLog)) :
              hookLog[i] = (ctxLog[i] = "dark")
        /\ Len(hookLog) = Len(ctxLog) =>
              /\ darkMode = (theme = "dark")
              /\ layoutView.header.toggle.checked = themedView.header.checked

C10_Witness ==
    /\ hookLog[1] = FALSE
    /\ Len(hookLog) = Len(ctxLog)
    /\ Len(hookLog) >= 3
    /\ lastEvent \in {"hookToggle", "ctxToggle"}

====
